---- MODULE Spec2Model ----
(***************************************************************************)
(* Model of mlir/lib/Dialect/Vector/Transforms/                            *)
(* VectorTransferSplitRewritePatterns.cpp: the rewrite that splits a       *)
(* vector.transfer_read / vector.transfer_write into an in-bounds fast     *)
(* path and a slow path through a scratch buffer.                          *)
(*                                                                         *)
(* A transfer op is a record.  Region dimensions are numbered 1..rank; the *)
(* vector dimension r (1..vector rank) addresses region dimension          *)
(* LeadingShapedRank + r, as zipResultAndIndexing pairs them.  Every       *)
(* extent and index carries both its run-time value and whether the        *)
(* compiler knows it statically.  Index arithmetic is over the integers:   *)
(* the model's values stay far below the width of the index type.          *)
(***************************************************************************)
EXTENDS Integers, Sequences, FiniteSets, TLC

VARIABLES
    op,   \* the transfer operation handed to the rewrite, with its ancestors
    ir,   \* what the rewrite did: result, emitted values, rewritten attributes
    rt,   \* run-time state while the original and the split form execute
    fn    \* argument/result cell of a helper applied on its own

vars == <<op, ir, rt, fn>>

(***************************************************************************)
(* Bounds of the model.                                                    *)
(***************************************************************************)
MaxExt == 2      \* region extents range over 1..MaxExt
MaxIdx == 3      \* indices range over 0..MaxIdx (beyond every extent)
MaxVec == 2      \* vector extents range over 1..MaxVec

Ranks == {1, 2}  \* vector ranks the non-degenerate slices draw from

\* A null mlir::Value / MemRefType / scf::IfOp.
NoValue == [null |-> TRUE]

\* The scf::IfOp cell a caller passes by pointer before the call fills it.
UnsetIfOp == [name |-> "unset"]

(***************************************************************************)
(* Small helpers over sequences.                                           *)
(***************************************************************************)
Range(s) == {s[i] : i \in DOMAIN s}

Min(a, b) == IF a <= b THEN a ELSE b

(***************************************************************************)
(* The inputs: one descriptor per region dimension covered by the vector,  *)
(* and the transfer ops assembled from them.                               *)
(***************************************************************************)
VecDims ==
    [v : 1..MaxVec, ext : 1..MaxExt, extStatic : BOOLEAN,
     idx : 0..MaxIdx, idxConst : BOOLEAN, inb : BOOLEAN]

\* An in_bounds flag is a promise of the producer: flagged dimensions are
\* really in bounds in the programs that execute.
HonestVecDims == {d \in VecDims : d.inb => d.idx + d.v <= d.ext}

\* A leading region dimension (not covered by the vector): its index is a
\* plain element index and must address an element.
LeadDims ==
    {d \in [ext : 1..MaxExt, extStatic : BOOLEAN, idx : 0..MaxIdx, idxConst : BOOLEAN] :
        d.idx < d.ext}

MkOp(kind, leads, dims, mask, minorId, strided, parents) ==
    [kind          |-> kind,
     vectorShape   |-> [i \in DOMAIN dims |-> dims[i].v],
     inBounds      |-> [i \in DOMAIN dims |-> dims[i].inb],
     shape         |-> [i \in DOMAIN leads |-> leads[i].ext] \o [i \in DOMAIN dims |-> dims[i].ext],
     shapeStatic   |-> [i \in DOMAIN leads |-> leads[i].extStatic] \o [i \in DOMAIN dims |-> dims[i].extStatic],
     indices       |-> [i \in DOMAIN leads |-> leads[i].idx] \o [i \in DOMAIN dims |-> dims[i].idx],
     indexConst    |-> [i \in DOMAIN leads |-> leads[i].idxConst] \o [i \in DOMAIN dims |-> dims[i].idxConst],
     mask          |-> mask,
     minorIdentity |-> minorId,
     strided       |-> strided,
     parents       |-> parents]

(***************************************************************************)
(* VectorTransferOpInterface accessors.                                    *)
(***************************************************************************)
getTransferRank(x) == Len(x.vectorShape)

getShapedRank(x) == Len(x.shape)

getLeadingShapedRank(x) == getShapedRank(x) - getTransferRank(x)

isDimInBounds(x, resultIdx) == x.inBounds[resultIdx]

hasOutOfBoundsDim(x) == \E r \in 1..getTransferRank(x) : ~isDimInBounds(x, r)

\* zipResultAndIndexing: the region dimension paired with vector dimension r.
IndicesIdx(x, resultIdx) == getLeadingShapedRank(x) + resultIdx

(***************************************************************************)
(* createInBoundsCond.  The returned Value is modelled by the sequence of  *)
(* arith.cmpi it conjoins with arith.andi, in emission order; the empty    *)
(* sequence is the null Value.  A comparison is                            *)
(*     cmpi <pred>, (indices[dim] + add), dim(source, dim)                 *)
(* and `folded` tells whether both operands are constants.                 *)
(***************************************************************************)
\* makeComposedFoldedAffineApply(d0 + vectorSize, index): a constant iff the
\* index is one.
SumIsConst(x, resultIdx) == x.indexConst[IndicesIdx(x, resultIdx)]

\* memref::getMixedSize: a constant iff the extent is static.
DimSzIsConst(x, resultIdx) == x.shapeStatic[IndicesIdx(x, resultIdx)]

SumValue(x, resultIdx) == x.indices[IndicesIdx(x, resultIdx)] + x.vectorShape[resultIdx]

DimSzValue(x, resultIdx) == x.shape[IndicesIdx(x, resultIdx)]

\* FoldsAway with the comparison of line 64 left out.
FoldsAway_unchecked(x, resultIdx) ==
    /\ SumIsConst(x, resultIdx)
    /\ DimSzIsConst(x, resultIdx)

\* FoldsAway with the comparison of line 64 made strict.
FoldsAway_strict(x, resultIdx) ==
    /\ SumIsConst(x, resultIdx)
    /\ DimSzIsConst(x, resultIdx)
    /\ SumValue(x, resultIdx) < DimSzValue(x, resultIdx)

\* Lines 62-65: the dimension is statically in bounds, no check is built.
FoldsAway(x, resultIdx) ==
    /\ SumIsConst(x, resultIdx)
    /\ DimSzIsConst(x, resultIdx)
    /\ SumValue(x, resultIdx) <= DimSzValue(x, resultIdx)

\* Lines 52-65: whether the callback builds a comparison for this dimension.
EmitsCheck(x, resultIdx) ==
    /\ ~isDimInBounds(x, resultIdx)
    /\ ~FoldsAway(x, resultIdx)

\* CmpFor with the predicate of line 67 made strict.
CmpFor_slt(x, resultIdx) ==
    [pred   |-> "slt",
     result |-> resultIdx,
     dim    |-> IndicesIdx(x, resultIdx),
     add    |-> x.vectorShape[resultIdx],
     folded |-> SumIsConst(x, resultIdx) /\ DimSzIsConst(x, resultIdx)]

\* Lines 66-69: the comparison built for one dimension.
CmpFor(x, resultIdx) ==
    [pred   |-> "sle",
     result |-> resultIdx,
     dim    |-> IndicesIdx(x, resultIdx),
     add    |-> x.vectorShape[resultIdx],
     folded |-> SumIsConst(x, resultIdx) /\ DimSzIsConst(x, resultIdx)]

RECURSIVE CondFrom(_, _)
CondFrom(x, resultIdx) ==
    IF resultIdx > getTransferRank(x) THEN <<>>
    ELSE (IF EmitsCheck(x, resultIdx) THEN <<CmpFor(x, resultIdx)>> ELSE <<>>)
         \o CondFrom(x, resultIdx + 1)

createInBoundsCond(x) == CondFrom(x, 1)

\* The run-time value of one comparison, and of the conjunction, when the
\* region has the extents and the indices have the values recorded in x.
EvalCmp(x, c) ==
    LET lhs == x.indices[c.dim] + c.add
        rhs == x.shape[c.dim]
    IN  CASE c.pred = "sle" -> lhs <= rhs
          [] c.pred = "slt" -> lhs < rhs
          [] OTHER -> FALSE

EvalCond(x, cond) == \A k \in DOMAIN cond : EvalCmp(x, cond[k])

(***************************************************************************)
(* splitFullAndPartialTransferPrecondition (lines 112-130).                *)
(***************************************************************************)
\* An ancestor operation: whether it carries the AutomaticAllocationScope
\* trait, whether it is an scf.for / affine.for, whether it is an scf.if.
\* Both loops carry the trait; an scf.if does not.
Ancestors ==
    {a \in [scope : BOOLEAN, loop : BOOLEAN, isIf : BOOLEAN] :
        /\ a.isIf => (~a.scope /\ ~a.loop)
        /\ a.loop => a.scope}

FuncOp == [scope |-> TRUE, loop |-> FALSE, isIf |-> FALSE]
ForOp == [scope |-> TRUE, loop |-> TRUE, isIf |-> FALSE]
IfOp == [scope |-> FALSE, loop |-> FALSE, isIf |-> TRUE]
PlainRegionOp == [scope |-> FALSE, loop |-> FALSE, isIf |-> FALSE]

ParentIsIfOp(x) == Len(x.parents) >= 1 /\ x.parents[1].isIf

splitFullAndPartialTransferPrecondition(x) ==
    IF getTransferRank(x) = 0 THEN FALSE
    ELSE IF ~x.minorIdentity THEN FALSE
    ELSE IF ~hasOutOfBoundsDim(x) THEN FALSE
    ELSE IF ParentIsIfOp(x) THEN FALSE
    ELSE TRUE

(***************************************************************************)
(* MemRefType and getCastCompatibleMemRefType (lines 141-167).             *)
(* A type is [shape, strides, offset, strided, elementType]; `strided`     *)
(* FALSE is a layout getStridesAndOffset fails on.  The null MemRefType    *)
(* is NoValue.                                                             *)
(***************************************************************************)
kDynamic == -1

RECURSIVE IdentityStride(_, _)
\* The stride of dimension i of a row-major layout: the product of the
\* extents after it, dynamic as soon as one of them is.
IdentityStride(shape, i) ==
    IF i >= Len(shape) THEN 1
    ELSE LET inner == IdentityStride(shape, i + 1)
         IN  IF inner = kDynamic \/ shape[i + 1] = kDynamic THEN kDynamic
             ELSE inner * shape[i + 1]

IdentityType(shape, elementType) ==
    [shape       |-> shape,
     strides     |-> [i \in DOMAIN shape |-> IdentityStride(shape, i)],
     offset      |-> 0,
     strided     |-> TRUE,
     elementType |-> elementType]

\* xferOp.getShapedType(): the type of the region the op addresses.
getShapedType(x) ==
    LET shape == [i \in DOMAIN x.shape |-> IF x.shapeStatic[i] THEN x.shape[i] ELSE kDynamic]
    IN  [IdentityType(shape, "f32") EXCEPT !.strided = x.strided]

\* MemRefType::get(vectorShape, elementType): the scratch buffer's type.
AllocType(x) == IdentityType(x.vectorShape, "f32")

FieldCompatible(a, b) == a = b \/ a = kDynamic \/ b = kDynamic

\* memref::CastOp::areCastCompatible on two ranked memref types.
areCastCompatible(aT, bT) ==
    /\ aT.elementType = bT.elementType
    /\ Len(aT.shape) = Len(bT.shape)
    /\ \/ [aT EXCEPT !.shape = <<>>] = [bT EXCEPT !.shape = <<>>]
       \/ /\ aT.strided /\ bT.strided
          /\ FieldCompatible(aT.offset, bT.offset)
          /\ \A i \in DOMAIN aT.strides : FieldCompatible(aT.strides[i], bT.strides[i])
    /\ \A i \in DOMAIN aT.shape : FieldCompatible(aT.shape[i], bT.shape[i])

getCastCompatibleMemRefType(aT, bT) ==
    IF areCastCompatible(aT, bT) THEN aT
    ELSE IF Len(aT.shape) # Len(bT.shape) THEN NoValue
    ELSE IF ~aT.strided \/ ~bT.strided \/ Len(aT.strides) # Len(bT.strides) THEN NoValue
    ELSE [shape       |-> [i \in DOMAIN aT.shape |->
                              IF aT.shape[i] = bT.shape[i] THEN aT.shape[i] ELSE kDynamic],
          strides     |-> [i \in DOMAIN aT.shape |->
                              IF aT.strides[i] = bT.strides[i] THEN aT.strides[i] ELSE kDynamic],
          offset      |-> IF aT.offset = bT.offset THEN aT.offset ELSE kDynamic,
          strided     |-> TRUE,
          elementType |-> aT.elementType]

(***************************************************************************)
(* getAutomaticAllocationScope (lines 428-442).  Ancestors are numbered    *)
(* from the parent (1) outwards; 0 is the null Operation*.                 *)
(***************************************************************************)
RECURSIVE ScopeWalk(_, _, _)
ScopeWalk(parents, parent, scope) ==
    IF parent > Len(parents) THEN scope
    ELSE LET seen == IF parents[parent].scope THEN parent ELSE scope
         IN  IF ~parents[parent].loop THEN seen
             ELSE ScopeWalk(parents, parent + 1, seen)

getAutomaticAllocationScope(x) == ScopeWalk(x.parents, 1, 0)

(***************************************************************************)
(* createSubViewIntersection (lines 172-210).  `alloc` is the scratch      *)
(* buffer, [shape |-> ...].  A subview is [base, offsets, sizes, strides]  *)
(* with base "source" (the op's region) or "alloc"; sizes hold the values  *)
(* the affine.min ops compute at run time.                                 *)
(***************************************************************************)
\* AffineMin with the index left out of the first expression.
AffineMin_noIndex(dimMemRef, index, dimAlloc) == Min(dimMemRef, dimAlloc)

\* affine_min(%dimMemRef - %index, %dimAlloc), lines 193-197.
AffineMin(dimMemRef, index, dimAlloc) == Min(dimMemRef - index, dimAlloc)

IntersectionSizes(x, alloc) ==
    [i \in 1..getLeadingShapedRank(x) |-> x.indices[i]]
    \o [r \in 1..getTransferRank(x) |->
            AffineMin(x.shape[IndicesIdx(x, r)], x.indices[IndicesIdx(x, r)], alloc.shape[r])]

createSubViewIntersection(x, alloc) ==
    LET memrefRank == getShapedRank(x)
        sizes == IntersectionSizes(x, alloc)
        isaWrite == x.kind = "write"
        srcIndices == x.indices
        destIndices == [i \in 1..memrefRank |-> 0]
        strides == [i \in 1..memrefRank |-> 1]
    IN  [copySrc  |-> [base    |-> IF isaWrite THEN "alloc" ELSE "source",
                       offsets |-> srcIndices, sizes |-> sizes, strides |-> strides],
         copyDest |-> [base    |-> IF isaWrite THEN "source" ELSE "alloc",
                       offsets |-> destIndices, sizes |-> sizes, strides |-> strides]]

(***************************************************************************)
(* The conditionals the rewrite builds.  An scf.if is                      *)
(*   [name, cond, negated, thenOps, thenYield, elseOps, elseYield];        *)
(* a yield is [memref, indices] or NoValue for an scf.if without results.  *)
(***************************************************************************)
AllTrue(x) == [r \in 1..getTransferRank(x) |-> TRUE]

Zeros(x) == [r \in 1..getTransferRank(x) |-> 0]

\* The fast arm shared by lines 239-247, 294-302 and 345-354.
FastArmOps(x, compatibleMemRefType) ==
    IF compatibleMemRefType # getShapedType(x)
    THEN <<[name |-> "memref.cast", of |-> "source"]>>
    ELSE <<>>

\* createFullPartialLinalgCopy for a read, lines 230-265.
createFullPartialLinalgCopyRead(x, inBoundsCond, compatibleMemRefType, alloc) ==
    [name      |-> "scf.if",
     cond      |-> inBoundsCond,
     negated   |-> FALSE,
     thenOps   |-> FastArmOps(x, compatibleMemRefType),
     thenYield |-> [memref |-> "source", indices |-> x.indices],
     elseOps   |-> <<[name |-> "linalg.fill", value |-> "pad", into |-> "alloc"],
                     [name |-> "memref.copy", views |-> createSubViewIntersection(x, alloc)],
                     [name |-> "memref.cast", of |-> "alloc"]>>,
     elseYield |-> [memref |-> "alloc", indices |-> Zeros(x)]]

\* createFullPartialVectorTransferRead, lines 285-318.
createFullPartialVectorTransferRead(x, inBoundsCond, compatibleMemRefType, alloc) ==
    [name      |-> "scf.if",
     cond      |-> inBoundsCond,
     negated   |-> FALSE,
     thenOps   |-> FastArmOps(x, compatibleMemRefType),
     thenYield |-> [memref |-> "source", indices |-> x.indices],
     elseOps   |-> <<[name |-> "vector.transfer_read", memref |-> "source",
                      indices |-> x.indices, inBounds |-> x.inBounds],
                     [name |-> "memref.store", into |-> "alloc"],
                     [name |-> "memref.cast", of |-> "alloc"]>>,
     elseYield |-> [memref |-> "alloc", indices |-> Zeros(x)]]

\* getLocationToWriteFullVec, lines 335-364.
getLocationToWriteFullVec(x, inBoundsCond, compatibleMemRefType, alloc) ==
    [name      |-> "scf.if",
     cond      |-> inBoundsCond,
     negated   |-> FALSE,
     thenOps   |-> FastArmOps(x, compatibleMemRefType),
     thenYield |-> [memref |-> "source", indices |-> x.indices],
     elseOps   |-> <<[name |-> "memref.cast", of |-> "alloc"]>>,
     elseYield |-> [memref |-> "alloc", indices |-> Zeros(x)]]

\* createFullPartialLinalgCopyWrite guarded by the condition itself, the
\* arith.xori of lines 383-384 left out.
createFullPartialLinalgCopyWrite_notNegated(x, inBoundsCond, alloc) ==
    [name      |-> "scf.if",
     cond      |-> inBoundsCond,
     negated   |-> FALSE,
     thenOps   |-> <<[name |-> "memref.copy", views |-> createSubViewIntersection(x, alloc)]>>,
     thenYield |-> NoValue,
     elseOps   |-> <<>>,
     elseYield |-> NoValue]

\* createFullPartialLinalgCopy for a write, lines 379-393.
createFullPartialLinalgCopyWrite(x, inBoundsCond, alloc) ==
    [name      |-> "scf.if",
     cond      |-> inBoundsCond,
     negated   |-> TRUE,
     thenOps   |-> <<[name |-> "memref.copy", views |-> createSubViewIntersection(x, alloc)]>>,
     thenYield |-> NoValue,
     elseOps   |-> <<>>,
     elseYield |-> NoValue]

\* createFullPartialVectorTransferWrite, lines 407-425.
createFullPartialVectorTransferWrite(x, inBoundsCond, alloc) ==
    [name      |-> "scf.if",
     cond      |-> inBoundsCond,
     negated   |-> TRUE,
     thenOps   |-> <<[name |-> "memref.load", from |-> "alloc"],
                     [name |-> "vector.transfer_write", memref |-> "source",
                      indices |-> x.indices, inBounds |-> x.inBounds]>>,
     thenYield |-> NoValue,
     elseOps   |-> <<>>,
     elseYield |-> NoValue]

\* InBoundsTransfer with the in_bounds attribute left as it was.
InBoundsTransfer_flagsKept(x) ==
    [name     |-> IF x.kind = "read" THEN "vector.transfer_read" ELSE "vector.transfer_write",
     memref   |-> "if#0",
     indices  |-> "if#1..",
     inBounds |-> x.inBounds]

\* The transfer that consumes the first conditional's results: the rewritten
\* read (lines 583-588) or the cloned write (lines 602-606).
InBoundsTransfer(x) ==
    [name     |-> IF x.kind = "read" THEN "vector.transfer_read" ELSE "vector.transfer_write",
     memref   |-> "if#0",
     indices  |-> "if#1..",
     inBounds |-> AllTrue(x)]

(***************************************************************************)
(* The values createInBoundsCond leaves before the transfer: per           *)
(* comparison its two operands, the arith.cmpi, and the arith.andi that    *)
(* conjoins it with the comparisons before it.                             *)
(***************************************************************************)
RECURSIVE CondValues(_, _)
CondValues(cond, k) ==
    IF k > Len(cond) THEN <<>>
    ELSE <<IF cond[k].folded THEN "arith.constant" ELSE "index operands", "arith.cmpi">>
         \o (IF k > 1 THEN <<"arith.andi">> ELSE <<>>)
         \o CondValues(cond, k + 1)

(***************************************************************************)
(* splitFullAndPartialTransfer (lines 504-618).                            *)
(*   strategy : "None" | "ForceInBounds" | "LinalgCopy" | "VectorTransfer" *)
(*   ifOp     : the caller's scf::IfOp cell, NoValue for a null pointer    *)
(*   asserts  : whether the build keeps assert() (no NDEBUG)               *)
(* The result record tells what the call returned and what it did to the   *)
(* IR.  result "abort" is a failed assert, or the null scope dereferenced  *)
(* at line 548.                                                            *)
(***************************************************************************)
\* HasMask with the mask never looked at.
HasMask_ignored(x) == FALSE

\* Lines 530-533: a transfer that carries a mask is not split.
HasMask(x) == x.mask

\* NothingToSplit with the null test dropped.
NothingToSplit_never(inBoundsCond) == FALSE

\* Lines 540-541: a null condition means there is nothing to split.
NothingToSplit(inBoundsCond) == inBoundsCond = <<>>

\* SetIfOp with the assignment left out.
SetIfOp_skipped(ifOp, fullPartialIfOp) == ifOp

\* Lines 579-580: `if (ifOp) *ifOp = fullPartialIfOp;`.
SetIfOp(ifOp, fullPartialIfOp) == IF ifOp # NoValue THEN fullPartialIfOp ELSE ifOp

Untouched(x, ifOp) ==
    [result               |-> "failure",
     inBounds             |-> x.inBounds,
     inserted             |-> <<>>,
     cond                 |-> <<>>,
     alloc                |-> NoValue,
     compatibleMemRefType |-> NoValue,
     body                 |-> <<>>,
     ifOp                 |-> ifOp,
     erased               |-> FALSE]

splitFullAndPartialTransfer(x, strategy, ifOp, asserts) ==
    LET base == Untouched(x, ifOp)
        inBoundsCond == createInBoundsCond(x)
        withCond == [base EXCEPT !.cond = inBoundsCond, !.inserted = CondValues(inBoundsCond, 1)]
        scope == getAutomaticAllocationScope(x)
        alloc == [scope |-> scope, shape |-> x.vectorShape]
        withAlloc == [withCond EXCEPT !.alloc = alloc]
        compatibleMemRefType == getCastCompatibleMemRefType(getShapedType(x), AllocType(x))
        fullPartialIfOp ==
            IF strategy = "VectorTransfer"
            THEN createFullPartialVectorTransferRead(x, inBoundsCond, compatibleMemRefType, alloc)
            ELSE createFullPartialLinalgCopyRead(x, inBoundsCond, compatibleMemRefType, alloc)
        cleanupIfOp ==
            IF strategy = "VectorTransfer"
            THEN createFullPartialVectorTransferWrite(x, inBoundsCond, alloc)
            ELSE createFullPartialLinalgCopyWrite(x, inBoundsCond, alloc)
    IN  IF strategy = "None" THEN base
        ELSE IF strategy = "ForceInBounds"
        THEN [base EXCEPT !.result = "success", !.inBounds = AllTrue(x)]
        ELSE IF asserts /\ ~splitFullAndPartialTransferPrecondition(x)
        THEN [base EXCEPT !.result = "abort"]
        ELSE IF HasMask(x) THEN base
        ELSE IF NothingToSplit(inBoundsCond) THEN base
        ELSE IF scope = 0 THEN [withCond EXCEPT !.result = "abort"]
        ELSE IF compatibleMemRefType = NoValue THEN withAlloc
        ELSE IF x.kind = "read"
        THEN [withAlloc EXCEPT
                !.result = "success",
                !.compatibleMemRefType = compatibleMemRefType,
                !.body = <<fullPartialIfOp, InBoundsTransfer(x)>>,
                !.ifOp = SetIfOp(ifOp, fullPartialIfOp),
                !.inBounds = AllTrue(x)]
        ELSE [withAlloc EXCEPT
                !.result = "success",
                !.compatibleMemRefType = compatibleMemRefType,
                !.body = <<getLocationToWriteFullVec(x, inBoundsCond, compatibleMemRefType, alloc),
                           InBoundsTransfer(x), cleanupIfOp>>,
                !.erased = TRUE]

\* VectorTransferFullPartialRewriter::matchAndRewrite (lines 647-654), with
\* the default filter, which accepts every op.
matchAndRewrite(x, strategy, asserts) ==
    IF ~splitFullAndPartialTransferPrecondition(x)
    THEN Untouched(x, NoValue)
    ELSE splitFullAndPartialTransfer(x, strategy, NoValue, asserts)

(***************************************************************************)
(* Idle values of the variables a slice does not use.                      *)
(***************************************************************************)
IdleIr == [pc |-> "idle"]
IdleRt == [pc |-> 0]
IdleFn == [name |-> "idle"]

(***************************************************************************)
(* The rewrite applied to one transfer op: through the pattern             *)
(* (matchAndRewrite, which passes no ifOp) or by a direct call of          *)
(* splitFullAndPartialTransfer with an ifOp cell, under every strategy     *)
(* and in both kinds of build.                                             *)
(***************************************************************************)
Strategies == {"None", "ForceInBounds", "LinalgCopy", "VectorTransfer"}

\* The dimensions this slice draws from: the largest vector extent against
\* the largest region extent, at index 0 (in bounds) or MaxIdx (outside).
SplitDims == {d \in VecDims : d.v = MaxVec /\ d.ext = MaxExt /\ d.idx \in {0, MaxIdx}}

SplitLead == [ext |-> MaxExt, extStatic |-> FALSE, idx |-> 0, idxConst |-> FALSE]

SplitChains == {<<FuncOp>>, <<ForOp, FuncOp>>, <<IfOp, FuncOp>>, <<PlainRegionOp, FuncOp>>}

SplitOps ==
    {MkOp(kind, leads, dims, mask, minorId, strided, parents) :
        kind \in {"read", "write"},
        leads \in {<<>>, <<SplitLead>>},
        dims \in UNION {[1..n -> SplitDims] : n \in {0} \cup Ranks},
        mask \in BOOLEAN,
        minorId \in BOOLEAN,
        strided \in BOOLEAN,
        parents \in SplitChains}

Init ==
    /\ op \in SplitOps
    /\ ir = [pc |-> "start"]
    /\ rt = IdleRt
    /\ fn = IdleFn

Returned(entry, strategy, r) ==
    [pc |-> "returned", entry |-> entry, strategy |-> strategy] @@ r

MatchAndRewrite ==
    /\ ir.pc = "start"
    /\ \E strategy \in Strategies, asserts \in BOOLEAN :
          ir' = Returned("pattern", strategy, matchAndRewrite(op, strategy, asserts))
    /\ UNCHANGED <<op, rt, fn>>

SplitFullAndPartialTransfer ==
    /\ ir.pc = "start"
    /\ \E strategy \in Strategies, asserts \in BOOLEAN :
          ir' = Returned("direct", strategy,
                         splitFullAndPartialTransfer(op, strategy, UnsetIfOp, asserts))
    /\ UNCHANGED <<op, rt, fn>>

Next == MatchAndRewrite \/ SplitFullAndPartialTransfer

Spec == Init /\ [][Next]_vars

(***************************************************************************)
(* Slice 1: createInBoundsCond applied on its own to every transfer with   *)
(* a trailing-identity map.                                                *)
(***************************************************************************)
\* The example of the specification: region extent 8, vector extent 4,
\* constant index 2.
FoldExampleOp ==
    MkOp("read", <<>>,
         <<[v |-> 4, ext |-> 8, extStatic |-> TRUE, idx |-> 2, idxConst |-> TRUE, inb |-> FALSE]>>,
         FALSE, TRUE, TRUE, <<FuncOp>>)

CondOps ==
    {MkOp("read", leads, dims, FALSE, TRUE, TRUE, <<FuncOp>>) :
        leads \in {<<>>, <<SplitLead>>},
        dims \in UNION {[1..n -> VecDims] : n \in Ranks}}
    \cup {FoldExampleOp}

InitCond ==
    /\ op \in CondOps
    /\ ir = IdleIr
    /\ rt = IdleRt
    /\ fn = [name |-> "createInBoundsCond", pc |-> "call", out |-> <<>>]

CallCreateInBoundsCond ==
    /\ fn.name = "createInBoundsCond"
    /\ fn.pc = "call"
    /\ fn' = [fn EXCEPT !.pc = "ret", !.out = createInBoundsCond(op)]
    /\ UNCHANGED <<op, ir, rt>>

NextCond == CallCreateInBoundsCond

SpecCond == InitCond /\ [][NextCond]_vars

(***************************************************************************)
(* Slice 2: getAutomaticAllocationScope applied on its own to a transfer   *)
(* inside a function, under every chain of up to MaxDepth ancestors        *)
(* between the two.                                                        *)
(***************************************************************************)
MaxDepth == 3

ScopeChains ==
    {inner \o <<FuncOp>> : inner \in UNION {[1..n -> Ancestors] : n \in 0..MaxDepth}}

ScopeOps ==
    {MkOp("read", <<>>, <<d>>, FALSE, TRUE, TRUE, parents) :
        d \in {e \in SplitDims : ~e.inb /\ ~e.extStatic /\ ~e.idxConst /\ e.idx = 0},
        parents \in ScopeChains}

InitScope ==
    /\ op \in ScopeOps
    /\ ir = IdleIr
    /\ rt = IdleRt
    /\ fn = [name |-> "getAutomaticAllocationScope", pc |-> "call", out |-> 0]

CallGetAutomaticAllocationScope ==
    /\ fn.name = "getAutomaticAllocationScope"
    /\ fn.pc = "call"
    /\ fn' = [fn EXCEPT !.pc = "ret", !.out = getAutomaticAllocationScope(op)]
    /\ UNCHANGED <<op, ir, rt>>

NextScope == CallGetAutomaticAllocationScope

SpecScope == InitScope /\ [][NextScope]_vars

(***************************************************************************)
(* Slice 3: createSubViewIntersection applied on its own to a transfer     *)
(* and the scratch buffer the rewrite allocates for it (the buffer has the *)
(* vector's shape, so the ranks agree as the function asserts).            *)
(***************************************************************************)
\* The example of the specification: region extent 10, buffer extent 4,
\* index 8.
OverlapExampleOp ==
    MkOp("read", <<>>,
         <<[v |-> 4, ext |-> 10, extStatic |-> FALSE, idx |-> 8, idxConst |-> FALSE, inb |-> FALSE]>>,
         FALSE, TRUE, TRUE, <<FuncOp>>)

InterDims == {d \in VecDims : ~d.inb /\ ~d.extStatic /\ ~d.idxConst}

InterOps ==
    {MkOp(kind, <<>>, dims, FALSE, TRUE, TRUE, <<FuncOp>>) :
        kind \in {"read", "write"},
        dims \in UNION {[1..n -> InterDims] : n \in Ranks}}
    \cup {OverlapExampleOp}

InitInter ==
    /\ op \in InterOps
    /\ ir = IdleIr
    /\ rt = IdleRt
    /\ fn = [name |-> "createSubViewIntersection", pc |-> "call", out |-> NoValue]

CallCreateSubViewIntersection ==
    /\ fn.name = "createSubViewIntersection"
    /\ fn.pc = "call"
    /\ fn' = [fn EXCEPT !.pc = "ret",
                        !.out = createSubViewIntersection(op, [scope |-> 1, shape |-> op.vectorShape])]
    /\ UNCHANGED <<op, ir, rt>>

NextInter == CallCreateSubViewIntersection

SpecInter == InitInter /\ [][NextInter]_vars

(***************************************************************************)
(* Slice 4: getCastCompatibleMemRefType applied on its own to every pair   *)
(* of memref types of rank 1 or 2 whose extents, strides and offset are    *)
(* small constants or dynamic, over two element types.  A layout that is   *)
(* not strided has no strides or offset to read: they are kept dynamic.    *)
(***************************************************************************)
TypeFields == {kDynamic, 1, 2}

ElementTypes == {"f32", "i32"}

MemRefTypes ==
    UNION {
        {t \in [shape : [1..n -> TypeFields], strides : [1..n -> TypeFields],
                offset : {kDynamic, 0, 1}, strided : BOOLEAN, elementType : ElementTypes] :
            ~t.strided => (t.offset = kDynamic /\ \A i \in 1..n : t.strides[i] = kDynamic)}
        : n \in Ranks}

IdleOp == [kind |-> "none"]

InitUnify ==
    /\ op = IdleOp
    /\ ir = IdleIr
    /\ rt = IdleRt
    /\ \E aT \in MemRefTypes, bT \in MemRefTypes :
          fn = [name |-> "getCastCompatibleMemRefType", pc |-> "call",
                aT |-> aT, bT |-> bT, out |-> NoValue]

CallGetCastCompatibleMemRefType ==
    /\ fn.name = "getCastCompatibleMemRefType"
    /\ fn.pc = "call"
    /\ fn' = [fn EXCEPT !.pc = "ret", !.out = getCastCompatibleMemRefType(fn.aT, fn.bT)]
    /\ UNCHANGED <<op, ir, rt>>

NextUnify == CallGetCastCompatibleMemRefType

SpecUnify == InitUnify /\ [][NextUnify]_vars

(***************************************************************************)
(* Slice 5: a rewrite driver applies the pattern, configured with one      *)
(* strategy, again and again and in any order to the transfer ops of a     *)
(* program of up to MaxProgram transfers.  Each entry of the program is a  *)
(* transfer op and whether a successful split left it behind.              *)
(***************************************************************************)
MaxProgram == 2

IsTransfer(o) == o.name \in {"vector.transfer_read", "vector.transfer_write"}

\* The transfer ops directly inside the arms of an scf.if the rewrite built:
\* clones of x, with x's attributes, whose parent is the scf.if.
ClonesIn(x, ifOp) ==
    LET nested == SelectSeq(ifOp.thenOps, IsTransfer) \o SelectSeq(ifOp.elseOps, IsTransfer)
    IN  [k \in DOMAIN nested |->
            [x EXCEPT !.inBounds = nested[k].inBounds, !.parents = <<IfOp>> \o x.parents]]

RECURSIVE TransfersOf(_, _, _)
\* The transfer ops among the ops body[k..] the rewrite put in x's place.
TransfersOf(x, body, k) ==
    IF k > Len(body) THEN <<>>
    ELSE (IF body[k].name = "scf.if" THEN ClonesIn(x, body[k])
          ELSE IF IsTransfer(body[k]) THEN <<[x EXCEPT !.inBounds = body[k].inBounds]>>
          ELSE <<>>)
         \o TransfersOf(x, body, k + 1)

\* The transfer ops a successful call leaves where x was: x itself with its
\* new in_bounds array when no conditional was built, else those of the body.
LeftBehind(x, r) ==
    IF r.body = <<>> THEN <<[x EXCEPT !.inBounds = r.inBounds]>>
    ELSE TransfersOf(x, r.body, 1)

FixDims ==
    {d \in SplitDims : d.extStatic = d.idxConst /\ (d.inb => (~d.extStatic /\ d.idx = 0))}

FixOps ==
    {MkOp(kind, <<>>, <<d>>, FALSE, TRUE, TRUE, parents) :
        kind \in {"read", "write"},
        d \in FixDims,
        parents \in {<<FuncOp>>, <<IfOp, FuncOp>>}}

InitFix ==
    /\ op = IdleOp
    /\ rt = IdleRt
    /\ fn = IdleFn
    /\ \E strategy \in Strategies, n \in 1..MaxProgram :
          \E program \in [1..n -> FixOps] :
              ir = [pc        |-> "driver",
                    strategy  |-> strategy,
                    originals |-> n,
                    applied   |-> 0,
                    ops       |-> [i \in 1..n |-> [x |-> program[i], derived |-> FALSE]]]

\* The driver hands one transfer op of the program to the pattern.  A
\* failure leaves the program's transfers as they are; a success puts the
\* transfers it leaves behind in the op's place.
ApplyPattern ==
    /\ ir.pc = "driver"
    /\ ir.applied <= ir.originals
    /\ \E i \in DOMAIN ir.ops, asserts \in BOOLEAN :
          LET x == ir.ops[i].x
              r == matchAndRewrite(x, ir.strategy, asserts)
              left == LeftBehind(x, r)
          IN  /\ r.result = "success"
              /\ ir' = [ir EXCEPT
                          !.applied = ir.applied + 1,
                          !.ops = SubSeq(ir.ops, 1, i - 1)
                                  \o [k \in DOMAIN left |-> [x |-> left[k], derived |-> TRUE]]
                                  \o SubSeq(ir.ops, i + 1, Len(ir.ops))]
    /\ UNCHANGED <<op, rt, fn>>

NextFix == ApplyPattern

SpecFix == InitFix /\ [][NextFix]_vars

(***************************************************************************)
(* Slice 6: splitFullAndPartialTransfer is called once on each of up to    *)
(* MaxProgram distinct transfer ops that satisfy its asserted              *)
(* precondition, in any order and under any strategy.  The slice keeps     *)
(* the memref.alloca ops present in the IR, each with the op whose call    *)
(* created it and the ops whose generated IR uses it.                      *)
(***************************************************************************)
SeqDims ==
    {d \in SplitDims : ~d.inb /\ d.extStatic = d.idxConst /\ (d.extStatic => d.idx = 0)}

SeqOps ==
    {x \in {MkOp(kind, leads, <<d>>, FALSE, TRUE, strided, <<FuncOp>>) :
                kind \in {"read", "write"},
                leads \in {<<>>, <<SplitLead>>},
                d \in SeqDims,
                strided \in BOOLEAN} :
        splitFullAndPartialTransferPrecondition(x)}

InitSeq ==
    /\ op = IdleOp
    /\ rt = IdleRt
    /\ fn = IdleFn
    /\ \E n \in 1..MaxProgram :
          \E program \in [1..n -> SeqOps] :
              ir = [pc          |-> "sequence",
                    ops         |-> [i \in 1..n |-> [x |-> program[i], called |-> FALSE]],
                    buffers     |-> <<>>,
                    transformed |-> {}]

\* One call on an op not called yet.  The alloca the call created, if any,
\* stays in the IR whatever the call returns.
CallOnNextOp ==
    /\ ir.pc = "sequence"
    /\ \E i \in DOMAIN ir.ops, strategy \in Strategies, asserts \in BOOLEAN :
          LET x == ir.ops[i].x
              r == splitFullAndPartialTransfer(x, strategy, NoValue, asserts)
              split == r.result = "success" /\ r.body # <<>>
          IN  /\ ~ir.ops[i].called
              /\ ir' = [ir EXCEPT
                          !.ops[i].called = TRUE,
                          !.transformed = IF split THEN ir.transformed \cup {i} ELSE ir.transformed,
                          !.buffers =
                              IF r.alloc = NoValue THEN ir.buffers
                              ELSE Append(ir.buffers,
                                          [shape       |-> r.alloc.shape,
                                           elementType |-> AllocType(x).elementType,
                                           createdFor  |-> i,
                                           usedBy      |-> IF split THEN {i} ELSE {}])]
    /\ UNCHANGED <<op, rt, fn>>

NextSeq == CallOnNextOp

SpecSeq == InitSeq /\ [][NextSeq]_vars

(***************************************************************************)
(* Run-time meaning of the ops the rewrite handles and builds.  A region   *)
(* is a function from coordinates (tuples counted from 0) to values; the   *)
(* values are symbolic and pairwise distinct, so that two memories agree   *)
(* only if every element came from the same place.                         *)
(***************************************************************************)
Pad == [from |-> "pad", at |-> <<>>]
Undef == [from |-> "uninitialized", at |-> <<>>]
Junk == [from |-> "undefined behaviour", at |-> <<>>]

RECURSIVE MaxOf(_, _)
MaxOf(s, i) == IF i > Len(s) THEN 0 ELSE LET m == MaxOf(s, i + 1) IN IF s[i] > m THEN s[i] ELSE m

\* The coordinates of a box of the given sizes; empty when a size is <= 0.
Box(sizes) ==
    {c \in [DOMAIN sizes -> 0..MaxOf(sizes, 1)] : \A r \in DOMAIN sizes : c[r] < sizes[r]}

Plus(a, b) == [r \in DOMAIN a |-> a[r] + b[r]]

InRange(shape, c) == \A r \in DOMAIN c : 0 <= c[r] /\ c[r] < shape[r]

InitialMem(x) == [c \in Box(x.shape) |-> [from |-> "region", at |-> c]]

InitialAlloc(x) == [l \in Box(x.vectorShape) |-> Undef]

VectorOperand(x) == [l \in Box(x.vectorShape) |-> [from |-> "vector", at |-> l]]

\* A transfer touches an element outside the region along a dimension it
\* declares in-bounds: undefined behaviour.
TransferOverruns(shape, indices, vectorShape, inBounds) ==
    \E l \in Box(vectorShape), r \in DOMAIN vectorShape :
        inBounds[r] /\ ~(0 <= indices[r] + l[r] /\ indices[r] + l[r] < shape[r])

\* vector.transfer_read: lanes inside the region hold its elements, the others
\* the padding value.
TransferRead(M, shape, indices, vectorShape) ==
    [l \in Box(vectorShape) |->
        IF InRange(shape, Plus(indices, l)) THEN M[Plus(indices, l)] ELSE Pad]

\* vector.transfer_write: lanes inside the region are stored, the others are
\* dropped.
TransferWrite(M, shape, indices, vectorShape, vec) ==
    [c \in DOMAIN M |->
        IF \E l \in Box(vectorShape) : Plus(indices, l) = c
        THEN vec[CHOOSE l \in Box(vectorShape) : Plus(indices, l) = c]
        ELSE M[c]]

\* A memref.subview is well formed when its sizes are non-negative and it lies
\* inside its base.
SubViewOk(view, baseShape) ==
    \A r \in DOMAIN view.sizes :
        /\ view.sizes[r] >= 0
        /\ view.offsets[r] >= 0
        /\ view.offsets[r] + view.sizes[r] <= baseShape[r]

BaseShape(x, base) == IF base = "source" THEN x.shape ELSE x.vectorShape

\* The machine state the generated ops act on: the region, the scratch
\* buffer, the vector value in flight, and whether undefined behaviour was hit.
BaseOf(st, base) == IF base = "source" THEN st.mem ELSE st.alloc

WithBase(st, base, M) == IF base = "source" THEN [st EXCEPT !.mem = M] ELSE [st EXCEPT !.alloc = M]

\* memref.copy between the two subviews of createSubViewIntersection.
ExecCopy(x, st, views) ==
    IF ~SubViewOk(views.copySrc, BaseShape(x, views.copySrc.base))
       \/ ~SubViewOk(views.copyDest, BaseShape(x, views.copyDest.base))
    THEN [st EXCEPT !.ub = TRUE]
    ELSE LET src == BaseOf(st, views.copySrc.base)
             dst == BaseOf(st, views.copyDest.base)
             box == Box(views.copySrc.sizes)
             new == [c \in DOMAIN dst |->
                        IF \E e \in box : Plus(views.copyDest.offsets, e) = c
                        THEN src[Plus(views.copySrc.offsets,
                                      CHOOSE e \in box : Plus(views.copyDest.offsets, e) = c)]
                        ELSE dst[c]]
         IN  WithBase(st, views.copyDest.base, new)

\* A transfer on `memref` at `indices` with the given in_bounds flags.
ExecTransfer(x, st, kind, memref, indices, inBounds) ==
    LET shape == BaseShape(x, memref)
        M == BaseOf(st, memref)
    IN  IF TransferOverruns(shape, indices, x.vectorShape, inBounds)
        THEN [st EXCEPT !.ub = TRUE]
        ELSE IF kind = "vector.transfer_read"
        THEN [st EXCEPT !.vec = TransferRead(M, shape, indices, x.vectorShape)]
        ELSE WithBase(st, memref, TransferWrite(M, shape, indices, x.vectorShape, st.vec))

ExecOp(x, st, o) ==
    CASE o.name = "memref.cast" -> st
      [] o.name = "linalg.fill" -> [st EXCEPT !.alloc = [l \in DOMAIN st.alloc |-> Pad]]
      [] o.name = "memref.copy" -> ExecCopy(x, st, o.views)
      [] o.name = "memref.store" -> [st EXCEPT !.alloc = st.vec]
      [] o.name = "memref.load" -> [st EXCEPT !.vec = st.alloc]
      [] o.name \in {"vector.transfer_read", "vector.transfer_write"} ->
            ExecTransfer(x, st, o.name, o.memref, o.indices, o.inBounds)

RECURSIVE ExecOps(_, _, _, _)
ExecOps(x, st, ops, k) ==
    IF k > Len(ops) \/ st.ub THEN st
    ELSE ExecOps(x, ExecOp(x, st, ops[k]), ops, k + 1)

\* An scf.if: the guard picks the arm, the arm's ops run, its yield becomes
\* the conditional's results.
GuardValue(x, ifOp) == IF ifOp.negated THEN ~EvalCond(x, ifOp.cond) ELSE EvalCond(x, ifOp.cond)

ExecIf(x, st, ifOp) ==
    IF GuardValue(x, ifOp)
    THEN [ExecOps(x, st, ifOp.thenOps, 1) EXCEPT
            !.yield = IF ifOp.thenYield = NoValue THEN st.yield ELSE ifOp.thenYield,
            !.arm = "then"]
    ELSE [ExecOps(x, st, ifOp.elseOps, 1) EXCEPT
            !.yield = IF ifOp.elseYield = NoValue THEN st.yield ELSE ifOp.elseYield,
            !.arm = "else"]

\* What a step that hit undefined behaviour may leave behind: the state as if
\* the offending op had done nothing, a trap, or garbage in both memories.
Outcomes(st) ==
    IF ~st.ub THEN {st}
    ELSE {st,
          [st EXCEPT !.trap = TRUE],
          [st EXCEPT !.mem = [c \in DOMAIN st.mem |-> Junk],
                     !.alloc = [l \in DOMAIN st.alloc |-> Junk],
                     !.vec = [l \in DOMAIN st.vec |-> Junk]]}

(***************************************************************************)
(* Slice 7: a candidate transfer is split through the pattern under the    *)
(* bulk-copy or the reissue strategy, and the IR that replaces it runs     *)
(* op by op on a region whose extents and indices are those of the op.     *)
(***************************************************************************)
ExecDims == {d \in HonestVecDims : d.extStatic = d.idxConst}

ExecInputs ==
    {MkOp(kind, <<>>, dims, FALSE, TRUE, TRUE, <<FuncOp>>) :
        kind \in {"read", "write"},
        dims \in UNION {[1..n -> ExecDims] : n \in Ranks}}

InitExec ==
    /\ op \in ExecInputs
    /\ ir = [pc |-> "start"]
    /\ rt = IdleRt
    /\ fn = IdleFn

Loaded(x) ==
    [pc    |-> 1,
     mem   |-> InitialMem(x),
     alloc |-> InitialAlloc(x),
     vec   |-> IF x.kind = "write" THEN VectorOperand(x) ELSE [l \in Box(x.vectorShape) |-> Undef],
     yield |-> NoValue,
     arm   |-> "none",
     first |-> "none",
     ub    |-> FALSE,
     trap  |-> FALSE]

\* The pattern rewrites the op; when it succeeds the program is started.
Rewrite ==
    /\ ir.pc = "start"
    /\ \E strategy \in {"LinalgCopy", "VectorTransfer"}, asserts \in BOOLEAN :
          ir' = Returned("pattern", strategy, matchAndRewrite(op, strategy, asserts))
    /\ rt' = IF ir'.result = "success" THEN Loaded(op) ELSE rt
    /\ UNCHANGED <<op, fn>>

Running == ir.pc = "returned" /\ ir.result = "success" /\ rt.pc \in DOMAIN ir.body /\ ~rt.trap

Advance(st) == [st EXCEPT !.pc = st.pc + 1]

\* The generated ops have all run.
Finished == ir.pc = "returned" /\ ir.result = "success" /\ rt.pc > Len(ir.body) /\ ~rt.trap

\* The conditional that picks (or fills) the memref the full transfer uses.
RunFullPartialIf ==
    /\ Running
    /\ rt.pc = 1
    /\ \E st \in Outcomes(ExecIf(op, rt, ir.body[1])) :
          rt' = Advance([st EXCEPT !.first = st.arm])
    /\ UNCHANGED <<op, ir, fn>>

\* The transfer marked fully in-bounds, on the conditional's results.
RunInBoundsTransfer ==
    /\ Running
    /\ rt.pc = 2
    /\ \E st \in Outcomes(ExecTransfer(op, rt, ir.body[2].name, rt.yield.memref,
                                       rt.yield.indices, ir.body[2].inBounds)) :
          rt' = Advance(st)
    /\ UNCHANGED <<op, ir, fn>>

\* The second conditional of a split write.
RunCleanupIf ==
    /\ Running
    /\ rt.pc = 3
    /\ \E st \in Outcomes(ExecIf(op, rt, ir.body[3])) :
          rt' = Advance(st)
    /\ UNCHANGED <<op, ir, fn>>

NextExec == Rewrite \/ RunFullPartialIf \/ RunInBoundsTransfer \/ RunCleanupIf

SpecExec == InitExec /\ [][NextExec]_vars

(***************************************************************************)
(* Properties of the rewrite applied to one op (specification Spec).       *)
(***************************************************************************)
Called == ir.pc = "returned"

\* The IR is as it was before the call: nothing inserted before the op, no
\* scratch buffer, no conditional, the op in place with its in_bounds array.
IRUnchanged ==
    /\ ir.inBounds = op.inBounds
    /\ ir.inserted = <<>>
    /\ ir.alloc = NoValue
    /\ ir.body = <<>>
    /\ ~ir.erased

\* Every vector dimension is flagged in-bounds, or its index and the region
\* extent are constants with index + vector extent <= extent.
StaticallyInBounds(x) ==
    \A r \in 1..Len(x.vectorShape) :
        LET d == Len(x.shape) - Len(x.vectorShape) + r
        IN  \/ x.inBounds[r]
            \/ /\ x.indexConst[d]
               /\ x.shapeStatic[d]
               /\ x.indices[d] + x.vectorShape[r] <= x.shape[d]

\* A call within the rewrite's contract: through the pattern, or directly on an
\* op for which the asserted precondition holds.
WithinContract == ir.entry = "pattern" \/ splitFullAndPartialTransferPrecondition(op)

\* C5 as claimed: with every dimension statically in bounds, every strategy
\* (ForceInBounds included) returns failure and changes nothing.
C5_AsClaimed ==
    (Called /\ WithinContract /\ StaticallyInBounds(op)) =>
        (ir.result = "failure" /\ IRUnchanged)

\* C5 (amended): when every dimension is statically provable in-bounds, the
\* strategies None, LinalgCopy and VectorTransfer never succeed and leave the
\* op and the IR as they were; the call returns failure, except that a direct
\* call on an op violating the asserted precondition aborts in a build with
\* assertions.  ForceInBounds is not a no-op: wherever it is reached it
\* returns success and sets the in_bounds array to all-true, nothing else.
C5_FastPathNotApplicable ==
    (Called /\ StaticallyInBounds(op)) =>
        /\ ir.strategy # "ForceInBounds" =>
              /\ ir.result \in {"failure", "abort"}
              /\ IRUnchanged
              /\ ir.result = "abort" =>
                    (ir.entry = "direct" /\ ~splitFullAndPartialTransferPrecondition(op))
        /\ ir.strategy = "ForceInBounds" =>
              IF ir.entry = "direct" \/ splitFullAndPartialTransferPrecondition(op)
              THEN /\ ir.result = "success"
                   /\ ir.inBounds = [r \in DOMAIN op.inBounds |-> TRUE]
                   /\ ir.inserted = <<>> /\ ir.alloc = NoValue /\ ir.body = <<>> /\ ~ir.erased
              ELSE ir.result = "failure" /\ IRUnchanged

\* A rank-2 candidate of the pattern whose two dimensions fold away (neither is
\* flagged), rejected under the bulk-copy strategy with the IR untouched.
C5_Witness ==
    /\ Called
    /\ ir.entry = "pattern"
    /\ ir.strategy = "LinalgCopy"
    /\ Len(op.vectorShape) = 2
    /\ ~op.inBounds[1] /\ ~op.inBounds[2]
    /\ ~op.mask
    /\ StaticallyInBounds(op)
    /\ splitFullAndPartialTransferPrecondition(op)
    /\ ir.result = "failure"

\* The ops C6 is about.
Rejectable(x) == x.mask \/ Len(x.vectorShape) = 0 \/ ~x.minorIdentity

\* C6 as claimed: masked, rank-zero and permuted ops yield failure under every
\* strategy (ForceInBounds included), short of the allocation.
C6_AsClaimed ==
    (Called /\ WithinContract /\ Rejectable(op)) =>
        (ir.result = "failure" /\ ir.alloc = NoValue)

\* C6 (amended): through the pattern, a rank-zero or permuted op yields failure
\* under every strategy.  A masked op yields failure under None, LinalgCopy and
\* VectorTransfer, through the pattern and through a direct call that respects
\* the asserted precondition; under ForceInBounds such a masked op is marked
\* fully in-bounds and success is returned.  In all these cases the scratch
\* buffer allocation is never reached and no conditional is built.
C6_Rejections ==
    (Called /\ WithinContract /\ Rejectable(op)) =>
        /\ ir.alloc = NoValue
        /\ ir.body = <<>>
        /\ ir.inserted = <<>>
        /\ ir.result \in {"failure", "success"}
        /\ ir.result = "success" <=>
              (ir.strategy = "ForceInBounds" /\ splitFullAndPartialTransferPrecondition(op))
        /\ ir.result = "success" => (op.mask /\ ir.inBounds = [r \in DOMAIN op.inBounds |-> TRUE])
        /\ ir.result = "failure" => IRUnchanged

\* A masked read that would otherwise be split (a run-time check is needed, a
\* scope and a compatible type exist) is rejected by a direct call under the
\* reissue strategy.
C6_Witness ==
    /\ Called
    /\ ir.entry = "direct"
    /\ ir.strategy = "VectorTransfer"
    /\ op.mask
    /\ op.kind = "read"
    /\ splitFullAndPartialTransferPrecondition(op)
    /\ Len(op.shape) = Len(op.vectorShape)
    /\ op.strided
    /\ \E r \in DOMAIN op.inBounds : ~op.inBounds[r] /\ ~op.indexConst[r]
    /\ ir.result = "failure"

\* C7: whenever splitFullAndPartialTransfer returns failure, the IR is what it
\* was before the call (no bounds-condition values, no scratch buffer).  Stated
\* for the calls within the contract, through the pattern or direct.
C7_FailureAtomicity ==
    (Called /\ WithinContract /\ ir.result = "failure") => IRUnchanged

\* C9 as claimed: a successful call with an ifOp cell that built the
\* conditional form leaves the new conditional in the cell, for a read and for
\* a write.
C9_AsClaimed ==
    (Called /\ ir.entry = "direct" /\ WithinContract /\ ir.result = "success"
        /\ ir.body # <<>>) =>
        ir.ifOp = ir.body[1]

\* C9 (amended): after a successful call with a non-null ifOp that split a read
\* (LinalgCopy or VectorTransfer), *ifOp is the conditional the call created,
\* guarded by the bounds condition and yielding the descriptor and indices.
\* After a successful call on a write, or under ForceInBounds (which creates no
\* conditional), *ifOp is what it was before the call.
C9_ConditionalHandle ==
    (Called /\ ir.entry = "direct" /\ ir.result = "success") =>
        IF op.kind = "read" /\ ir.strategy # "ForceInBounds"
        THEN /\ ir.body # <<>>
             /\ ir.ifOp = ir.body[1]
             /\ ir.ifOp.name = "scf.if"
             /\ ir.ifOp.cond = ir.cond /\ ir.cond # <<>> /\ ~ir.ifOp.negated
             /\ ir.ifOp.thenYield = [memref |-> "source", indices |-> op.indices]
        ELSE ir.ifOp = UnsetIfOp

\* A read split by a direct call under the bulk-copy strategy.
C9_Witness ==
    /\ Called
    /\ ir.entry = "direct"
    /\ ir.result = "success"
    /\ op.kind = "read"
    /\ ir.strategy = "LinalgCopy"
    /\ ir.ifOp # UnsetIfOp

(***************************************************************************)
(* Properties of createInBoundsCond (specification SpecCond).              *)
(***************************************************************************)
CondReturned == fn.name = "createInBoundsCond" /\ fn.pc = "ret"

\* The region dimension of vector dimension r under the trailing identity map.
RegionDim(x, r) == Len(x.shape) - Len(x.vectorShape) + r

\* index + vector_extent <= region_extent along vector dimension r, at run time.
FitsAtRunTime(x, r) == x.indices[RegionDim(x, r)] + x.vectorShape[r] <= x.shape[RegionDim(x, r)]

\* C3: whenever createInBoundsCond returns a condition, its run-time value is
\* true exactly when index + vector_extent <= region_extent along every vector
\* dimension not flagged in-bounds; no comparison reads a flagged dimension,
\* every comparison is a signed <= on the dimension's own index and extent, and
\* the value is their conjunction.
C3_ConditionCorrect ==
    (CondReturned /\ fn.out # <<>>) =>
        /\ EvalCond(op, fn.out) <=>
              (\A r \in DOMAIN op.inBounds : ~op.inBounds[r] => FitsAtRunTime(op, r))
        /\ \A k \in DOMAIN fn.out :
              /\ ~op.inBounds[fn.out[k].result]
              /\ fn.out[k].pred = "sle"
              /\ fn.out[k].dim = RegionDim(op, fn.out[k].result)
              /\ fn.out[k].add = op.vectorShape[fn.out[k].result]

\* A rank-2 transfer below a leading dimension: vector dimension 1 is flagged
\* in-bounds although it does not fit, dimension 2 is checked and fits exactly,
\* and the condition is true.
C3_Witness ==
    /\ CondReturned
    /\ Len(op.vectorShape) = 2 /\ Len(op.shape) = 3
    /\ op.inBounds[1] /\ ~FitsAtRunTime(op, 1)
    /\ ~op.inBounds[2] /\ ~op.indexConst[3]
    /\ op.indices[3] + op.vectorShape[2] = op.shape[3]
    /\ Len(fn.out) = 1
    /\ EvalCond(op, fn.out)

\* Vector dimension r has a constant index and a static region extent.
StaticallyKnown(x, r) == x.indexConst[RegionDim(x, r)] /\ x.shapeStatic[RegionDim(x, r)]

ChecksDim(cond, r) == \E k \in DOMAIN cond : cond[k].result = r

\* C4 as claimed: a dimension with a constant index and a static extent never
\* gets a comparison; comparisons are built only for dimensions whose index or
\* extent is not statically known.
C4_AsClaimed ==
    CondReturned =>
        \A r \in DOMAIN op.inBounds : StaticallyKnown(op, r) => ~ChecksDim(fn.out, r)

\* C4 (amended): createInBoundsCond builds no comparison for a dimension that
\* is flagged in-bounds, nor for one whose constant index and static extent
\* prove index + vector_extent <= region_extent (extent 8, vector extent 4,
\* constant index 2: no check).  It builds exactly one comparison for every
\* other dimension: those whose index or extent is not statically known, and
\* also those statically known to run past the extent, whose comparison then
\* has two constant operands.
C4_StaticFolding ==
    CondReturned =>
        /\ \A r \in DOMAIN op.inBounds :
              /\ ChecksDim(fn.out, r) <=>
                    /\ ~op.inBounds[r]
                    /\ ~(StaticallyKnown(op, r) /\ FitsAtRunTime(op, r))
              /\ Cardinality({k \in DOMAIN fn.out : fn.out[k].result = r}) <= 1
        /\ \A k \in DOMAIN fn.out :
              fn.out[k].folded <=> StaticallyKnown(op, fn.out[k].result)
        /\ op = FoldExampleOp => fn.out = <<>>

\* A rank-2 transfer with both dimensions statically known: the first fits
\* exactly and gets no comparison, the second runs past the extent and gets one.
C4_Witness ==
    /\ CondReturned
    /\ Len(op.vectorShape) = 2 /\ Len(op.shape) = 2
    /\ ~op.inBounds[1] /\ ~op.inBounds[2]
    /\ StaticallyKnown(op, 1) /\ StaticallyKnown(op, 2)
    /\ op.indices[1] + op.vectorShape[1] = op.shape[1]
    /\ ~FitsAtRunTime(op, 2)
    /\ Len(fn.out) = 1 /\ fn.out[1].result = 2 /\ fn.out[1].folded

(***************************************************************************)
(* Properties of getAutomaticAllocationScope (specification SpecScope).    *)
(***************************************************************************)
ScopeReturned == fn.name = "getAutomaticAllocationScope" /\ fn.pc = "ret"

\* The ancestors that are automatic-allocation scopes and no loops.
NonLoopScopes(x) == {i \in DOMAIN x.parents : x.parents[i].scope /\ ~x.parents[i].loop}

\* C8: the scope getAutomaticAllocationScope returns is the nearest ancestor
\* that is an automatic-allocation scope and not a loop, so the scratch buffer
\* never lands in a loop body.
C8_ScopeHoisting ==
    (ScopeReturned /\ fn.out # 0) =>
        /\ ~op.parents[fn.out].loop
        /\ fn.out \in NonLoopScopes(op)
        /\ \A i \in NonLoopScopes(op) : fn.out <= i

(***************************************************************************)
(* Properties of the split form at run time (specification SpecExec).      *)
(***************************************************************************)
\* The split form has run to its end or trapped on the way.
Ended == ir.pc = "returned" /\ ir.result = "success" /\ (rt.pc > Len(ir.body) \/ rt.trap)

\* What the original, masked transfer_read yields on the initial region.
OriginalReadResult(x) == TransferRead(InitialMem(x), x.shape, x.indices, x.vectorShape)

\* The region after the original, masked transfer_write.
OriginalWriteResult(x) ==
    TransferWrite(InitialMem(x), x.shape, x.indices, x.vectorShape, VectorOperand(x))

\* C1: for every region, index tuple (at or beyond the extent included) and
\* pad value, the IR a successful split of a read produces, under the bulk-copy
\* and under the reissue strategy, runs to its end and yields the vector the
\* original masked read yields.
C1_ReadEquivalence ==
    (Ended /\ op.kind = "read") =>
        (~rt.trap /\ rt.vec = OriginalReadResult(op))

\* C2: for a write that is partly out of bounds, the IR a successful split
\* produces, under either strategy, leaves in every in-bounds element the
\* original masked write covers the vector lane of that position, leaves every
\* other element unchanged, and writes nothing outside the region.
C2_WriteRoundTrip ==
    (Ended /\ op.kind = "write"
        /\ (\E r \in DOMAIN op.inBounds : ~FitsAtRunTime(op, r))
        /\ (\A r \in DOMAIN op.inBounds : op.indices[r] < op.shape[r])) =>
        (~rt.trap /\ rt.mem = OriginalWriteResult(op))

(***************************************************************************)
(* Properties of createSubViewIntersection (specification SpecInter).      *)
(***************************************************************************)
InterReturned == fn.name = "createSubViewIntersection" /\ fn.pc = "ret"

\* The smaller of what is left of the region from the index on and the
\* buffer's extent, for vector dimension r.
Overlap(x, r) ==
    LET left == x.shape[IndicesIdx(x, r)] - x.indices[IndicesIdx(x, r)]
        buf  == x.vectorShape[r]
    IN  CHOOSE m \in {left, buf} : m <= left /\ m <= buf

\* C10: for each vector dimension, the size createSubViewIntersection gives
\* both subviews of the slow-path copy is
\* min(region extent - index, buffer extent) on the run-time values.
C10_OverlapSizing ==
    InterReturned =>
        \A r \in 1..getTransferRank(op) :
            /\ fn.out.copySrc.sizes[IndicesIdx(op, r)] = Overlap(op, r)
            /\ fn.out.copyDest.sizes[IndicesIdx(op, r)] = Overlap(op, r)

\* The example has been sized: extent 10, buffer 4, index 8 overlap in 2.
C10_Witness ==
    /\ InterReturned
    /\ op = OverlapExampleOp
    /\ fn.out.copySrc.sizes = <<2>>
    /\ fn.out.copyDest.sizes = <<2>>

\* The view of the pair built over the given base.
ViewOver(views, base) == IF views.copySrc.base = base THEN views.copySrc ELSE views.copyDest

\* C11: for a read and for a write, the view over the original region starts
\* at the transfer's indices and the view over the scratch buffer at all-zero
\* offsets, both with the same sizes and unit strides; a write only swaps the
\* copy direction (buffer view is the source, region view the destination).
C11_IntersectionOffsets ==
    InterReturned =>
        /\ {fn.out.copySrc.base, fn.out.copyDest.base} = {"source", "alloc"}
        /\ fn.out.copySrc.base = (IF op.kind = "write" THEN "alloc" ELSE "source")
        /\ ViewOver(fn.out, "source").offsets = op.indices
        /\ ViewOver(fn.out, "alloc").offsets = [i \in DOMAIN op.indices |-> 0]
        /\ fn.out.copySrc.sizes = fn.out.copyDest.sizes
        /\ fn.out.copySrc.strides = [i \in DOMAIN op.indices |-> 1]
        /\ fn.out.copyDest.strides = [i \in DOMAIN op.indices |-> 1]

(***************************************************************************)
(* Properties of getCastCompatibleMemRefType (specification SpecUnify).    *)
(***************************************************************************)
UnifyReturned == fn.name = "getCastCompatibleMemRefType" /\ fn.pc = "ret"

\* A static field of the target equals the field cast to it, unless that
\* field is dynamic.
StaticAgrees(target, from) == target = kDynamic \/ from = kDynamic \/ target = from

\* t can be cast to `target`: same rank, same element type, and every static
\* extent, stride and offset of the target agrees with t's.
CastableTo(t, target) ==
    /\ Len(t.shape) = Len(target.shape)
    /\ t.elementType = target.elementType
    /\ \A i \in DOMAIN target.shape : StaticAgrees(target.shape[i], t.shape[i])
    /\ \A i \in DOMAIN target.strides : StaticAgrees(target.strides[i], t.strides[i])
    /\ StaticAgrees(target.offset, t.offset)

\* C12: whenever getCastCompatibleMemRefType(aT, bT) returns a type, aT and
\* bT can both be cast to it, whatever their ranks, extents, strides, offsets
\* and element types.
C12_UnifierSound ==
    (UnifyReturned /\ fn.out # NoValue) =>
        (CastableTo(fn.aT, fn.out) /\ CastableTo(fn.bT, fn.out))

(***************************************************************************)
(* Properties of the pattern applied repeatedly (specification SpecFix).   *)
(***************************************************************************)
Driving == ir.pc = "driver"

\* C13: every transfer op a successful split leaves behind or creates fails
\* splitFullAndPartialTransferPrecondition, being fully in-bounds or directly
\* inside a conditional, so the pattern never splits it again and the number
\* of successful applications is at most the number of original transfers.
C13_NoResplit ==
    Driving =>
        /\ \A i \in DOMAIN ir.ops :
              ir.ops[i].derived =>
                 /\ ~splitFullAndPartialTransferPrecondition(ir.ops[i].x)
                 /\ \/ \A r \in DOMAIN ir.ops[i].x.inBounds : ir.ops[i].x.inBounds[r]
                    \/ ParentIsIfOp(ir.ops[i].x)
        /\ ir.applied <= ir.originals

\* Both transfers of a two-op program have been split under the reissue
\* strategy: a fully in-bounds transfer and a clone inside a conditional that
\* kept an out-of-bounds dimension are left, and nothing more can be split.
C13_Witness ==
    /\ Driving
    /\ ir.strategy = "VectorTransfer"
    /\ ir.originals = 2
    /\ ir.applied = 2
    /\ \E i \in DOMAIN ir.ops :
          /\ ir.ops[i].derived
          /\ ParentIsIfOp(ir.ops[i].x)
          /\ \E r \in DOMAIN ir.ops[i].x.inBounds : ~ir.ops[i].x.inBounds[r]
    /\ \E i \in DOMAIN ir.ops :
          /\ ir.ops[i].derived
          /\ ~ParentIsIfOp(ir.ops[i].x)
          /\ \A r \in DOMAIN ir.ops[i].x.inBounds : ir.ops[i].x.inBounds[r]
    /\ \A i \in DOMAIN ir.ops : ir.ops[i].derived

(***************************************************************************)
(* Control flow of a split write (specification SpecExec).                 *)
(***************************************************************************)
\* The three ops of a split write have run (the last may have trapped).
WriteRan == ir.pc = "returned" /\ ir.result = "success" /\ op.kind = "write" /\ rt.pc = 4

\* The ops a split write leaves, in program order: the conditional that picks
\* the destination, the fully in-bounds write on its results, and the cleanup
\* conditional guarded by the negated bounds condition.
WriteShape ==
    /\ Len(ir.body) = 3
    /\ ir.body[1].name = "scf.if" /\ ir.body[1].cond = ir.cond /\ ~ir.body[1].negated
    /\ ir.body[2].name = "vector.transfer_write"
    /\ ir.body[2].memref = "if#0"
    /\ ir.body[3].name = "scf.if" /\ ir.body[3].cond = ir.cond /\ ir.body[3].negated
    /\ ir.body[3].elseOps = <<>>

\* C14: in every run of a split write the cleanup conditional comes after
\* the in-bounds write and its body runs exactly when the first conditional
\* chose the scratch buffer (bounds condition false); when the condition is
\* true the whole vector lands in the region at the original indices and no
\* op that ran touches the scratch buffer, which keeps its initial contents.
C14_WriteControlFlow ==
    WriteRan =>
        /\ WriteShape
        /\ rt.first = "else" <=> ~EvalCond(op, ir.cond)
        /\ rt.arm = "then" <=> rt.first = "else"
        /\ rt.first = "else" => rt.yield = [memref |-> "alloc", indices |-> Zeros(op)]
        /\ rt.first = "then" =>
              /\ rt.yield = [memref |-> "source", indices |-> op.indices]
              /\ \A k \in DOMAIN ir.body[1].thenOps :
                    ir.body[1].thenOps[k] = [name |-> "memref.cast", of |-> "source"]
              /\ ~rt.ub /\ ~rt.trap
              /\ rt.alloc = InitialAlloc(op)
              /\ rt.mem = TransferWrite(InitialMem(op), op.shape, op.indices,
                                        op.vectorShape, VectorOperand(op))
              /\ \A l \in DOMAIN VectorOperand(op) :
                    rt.mem[Plus(op.indices, l)] = VectorOperand(op)[l]

\* A rank-2 write under the reissue strategy took the slow path: the vector
\* went to the scratch buffer and the cleanup conditional then ran.
C14_Witness ==
    /\ WriteRan
    /\ ir.strategy = "VectorTransfer"
    /\ Len(op.vectorShape) = 2
    /\ rt.first = "else"
    /\ rt.arm = "then"
    /\ ~rt.trap
    /\ rt.alloc = VectorOperand(op)

(***************************************************************************)
(* Properties of a sequence of calls (specification SpecSeq).              *)
(***************************************************************************)
InSequence == ir.pc = "sequence"

\* C15: after any sequence of calls on distinct ops there are as many scratch
\* buffers in the IR as ops that were turned into the conditional form (a
\* call that failed, or ran under None or ForceInBounds, adds none); each
\* buffer has the static shape and element type of its op's vector, and no
\* buffer is used by the IR generated for two ops.
C15_OneBufferPerSplit ==
    InSequence =>
        /\ Len(ir.buffers) = Cardinality(ir.transformed)
        /\ \A k \in DOMAIN ir.buffers :
              /\ ir.buffers[k].createdFor \in ir.transformed
              /\ ir.buffers[k].shape = ir.ops[ir.buffers[k].createdFor].x.vectorShape
              /\ \A d \in DOMAIN ir.buffers[k].shape : ir.buffers[k].shape[d] # kDynamic
              /\ ir.buffers[k].elementType = "f32"
              /\ ir.buffers[k].usedBy = {ir.buffers[k].createdFor}

(***************************************************************************)
(* When getAutomaticAllocationScope finds a scope (specification           *)
(* SpecScope).                                                             *)
(***************************************************************************)
\* Some ancestor carries the AutomaticAllocationScope trait.
HasScopeAncestor(x) == \E i \in DOMAIN x.parents : x.parents[i].scope

\* C16: getAutomaticAllocationScope ends with a null scope (its assertion
\* fires) only when no ancestor at all is an automatic-allocation scope; for
\* every chain with such an ancestor it returns one of them.
C16_ScopeFound ==
    ScopeReturned =>
        /\ fn.out = 0 => ~HasScopeAncestor(op)
        /\ HasScopeAncestor(op) => (fn.out \in DOMAIN op.parents /\ op.parents[fn.out].scope)

(***************************************************************************)
(* The fully in-bounds transfer of the split form (specification           *)
(* SpecExec, whose ops have non-negative indices and honest flags).        *)
(***************************************************************************)
\* The conditional has run and the in-bounds transfer is about to.
AtInBoundsTransfer ==
    ir.pc = "returned" /\ ir.result = "success" /\ rt.pc = 2 /\ ~rt.trap

\* C17: when the original flags are honest, the transfer marked fully
\* in-bounds touches only elements of the memref it is given: on the true arm
\* that is the region at the original indices, with index + vector extent <=
\* region extent along every dimension; on the false arm it is the scratch
\* buffer at all-zero indices, whose shape is the vector's.
C17_InBoundsMarkingSound ==
    AtInBoundsTransfer =>
        /\ ir.body[2].inBounds = [r \in DOMAIN op.vectorShape |-> TRUE]
        /\ ~TransferOverruns(BaseShape(op, rt.yield.memref), rt.yield.indices,
                             op.vectorShape, ir.body[2].inBounds)
        /\ rt.first = "then" =>
              /\ rt.yield = [memref |-> "source", indices |-> op.indices]
              /\ \A r \in DOMAIN op.vectorShape : FitsAtRunTime(op, r)
        /\ rt.first = "else" =>
              /\ rt.yield = [memref |-> "alloc", indices |-> [r \in DOMAIN op.indices |-> 0]]
              /\ ir.alloc.shape = op.vectorShape
              /\ BaseShape(op, "alloc") = op.vectorShape

\* A rank-2 transfer on the true arm: one dimension was flagged in-bounds,
\* the other was checked at run time and fits exactly.
C17_Witness ==
    /\ AtInBoundsTransfer
    /\ Len(op.vectorShape) = 2
    /\ op.inBounds[1] /\ ~op.inBounds[2] /\ ~op.indexConst[2]
    /\ op.indices[2] + op.vectorShape[2] = op.shape[2]
    /\ op.indices[2] > 0
    /\ rt.first = "then"

(***************************************************************************)
(* Range of the slow-path copy (specification SpecInter, whose ops have    *)
(* non-negative indices and only dimensions checked at run time).          *)
(***************************************************************************)
\* The bounds condition is false at run time: the slow path is taken.
TakesSlowPath(x) == \E r \in 1..getTransferRank(x) : ~FitsAtRunTime(x, r)

\* The view has no negative size and lies inside a memref of the given shape.
ViewInside(view, shape) ==
    \A r \in DOMAIN view.sizes :
        /\ 0 <= view.sizes[r]
        /\ 0 <= view.offsets[r]
        /\ view.offsets[r] + view.sizes[r] <= shape[r]

\* C18: whenever the slow-path bulk copy is reached, for every non-negative
\* index tuple, each overlap size lies between 0 and the buffer's extent, and
\* both subviews lie inside the region and inside the buffer.
C18_CopyStaysInRange ==
    (InterReturned /\ TakesSlowPath(op)) =>
        /\ \A r \in 1..getTransferRank(op) :
              /\ 0 <= fn.out.copySrc.sizes[IndicesIdx(op, r)]
              /\ fn.out.copySrc.sizes[IndicesIdx(op, r)] <= op.vectorShape[r]
        /\ ViewInside(ViewOver(fn.out, "source"), op.shape)
        /\ ViewInside(ViewOver(fn.out, "alloc"), op.vectorShape)

====
